---- MODULE Spec2Model ----
(***************************************************************************)
(* Simulation engine of the platform-jumping game (components/GameCanvas): *)
(* the fixed-timestep driver (animate), one physics step (updatePhysics),  *)
(* the power-up state machine (activatePowerUp and its expiry timeouts),   *)
(* resetGame, and the host (App) that owns gameState.                      *)
(*                                                                         *)
(* Numbers.  The source computes in floating point.  Here lengths and      *)
(* velocities are integers in hundredths of a pixel (Px(1) = 100), so that *)
(* gravity 0.38, jump -13.5 and 1.5 x -13.5 are exact; products with a     *)
(* fraction (friction, random scales) are truncated toward zero.  Times    *)
(* are integers in thirds of a millisecond (Ms(1) = 3), so that the fixed  *)
(* step 1000/60 ms is exactly 50 units.                                    *)
(*                                                                         *)
(* Not modelled: drawing, sound, particles and ripples, platform colours   *)
(* and ids (none of them is read by the simulation).                       *)
(***************************************************************************)
EXTENDS Integers, Sequences, FiniteSets, TLC

\* ------------------------------------------------------------------ units
Px(n) == 100 * n
Ms(t) == 3 * t

Abs(v) == IF v < 0 THEN -v ELSE v
Min(a, b) == IF a < b THEN a ELSE b
Max(a, b) == IF a > b THEN a ELSE b
\* v * num / den, truncated toward zero
MulFrac(v, num, den) == IF v >= 0 THEN (v * num) \div den ELSE -(((-v) * num) \div den)

\* -------------------------------------------------------------- constants
CANVAS_WIDTH == Px(400)
CANVAS_HEIGHT == Px(600)
PLAYER_SIZE == Px(40)
PLATFORM_WIDTH == Px(105)
PLATFORM_HEIGHT == Px(15)
POWERUP_SIZE == Px(20)
\* FRICTION = 0.8
FRICTION_NUM == 8
FRICTION_DEN == 10
\* player.vy = -12 while boosting
BOOST_VY == -Px(12)

POWERUP_DURATION == Ms(10000)
GIANT_DURATION == Ms(5000)
BOOSTER_DURATION == Ms(3000)
READY_TIME == Ms(1500)
\* 1000 / 60 ms
FIXED_TIMESTEP == 50
MAX_DELTA_TIME == Ms(250)
MAX_STEPS == 240

SHIELD == "SHIELD"
SCORE_MULTIPLIER == "SCORE_MULTIPLIER"
GIANT == "GIANT"
BOOSTER == "BOOSTER"
PowerUpType == {SHIELD, SCORE_MULTIPLIER, GIANT, BOOSTER}
\* plat.powerUp = undefined
NoPowerUp == "none"

CharacterType == {"YELLOW", "BLUE"}
CHARACTER_SPECS ==
    [ YELLOW |-> [jumpStrength |-> -1500, gravity |-> 50, moveSpeed |-> 120],
      BLUE   |-> [jumpStrength |-> -1350, gravity |-> 38, moveSpeed |-> 90] ]

\* SCORE_TIERS, multipliers in tenths (1.5 -> 15)
SCORE_TIERS ==
    << [min |-> 0,    multiplier10 |-> 10],
       [min |-> 1000, multiplier10 |-> 15],
       [min |-> 2500, multiplier10 |-> 20],
       [min |-> 5000, multiplier10 |-> 30],
       [min |-> 8000, multiplier10 |-> 50] >>

\* ----------------------------------------------------------------- bounds
\* the callback calls that may throw
MaxThrows == 1

\* the scores the tier lookup is tried on
MaxScore == 8200

\* frames are followed up to this time: the ready phase and 16 fixed steps
MaxNow == 5300
\* key presses and releases per behaviour
MaxKeyEvents == 1
\* key events arrive within this long of the end of the ready phase
MaxKeyTime == 50
\* rounds (resets) per behaviour
MaxRounds == 2
\* round-end notifications counted
MaxGameOverCalls == 3
\* generated platforms whose random draws are chosen freely; later ones use DefaultDraw
MaxRandomPlatforms == 1

\* ------------------------------------------------------------------ state
VARIABLES
    gameState,          \* App: gameState as closed over by the current animate
    hostGameState,      \* App: the value setGameState has been called with
    resetTrigger,       \* App: resetTrigger, the number of resets so far
    player,             \* playerRef.current
    platforms,          \* platformsRef.current
    score,              \* scoreRef.current
    keysPressed,        \* keysPressed.current
    now,                \* performance.now()
    lastTime,           \* lastTimeRef.current
    accumulator,        \* accumulatorRef.current
    readyEndTime,       \* readyEndTimeRef.current
    lastReadyCount,     \* lastReadyCountRef.current
    timeouts,           \* the host's table of pending window.setTimeout callbacks
    nextTimerId,        \* the id the next window.setTimeout returns
    multiplierTimerRef, \* multiplierTimerRef.current (0 is null)
    giantTimerRef,      \* giantTimerRef.current
    boosterTimerRef,    \* boosterTimerRef.current
    pc,                 \* "idle", "loop" inside animate's while loop, or "halted"
                        \* when animate was left by an exception
    steps,              \* animate: let steps
    lastScoreSent,      \* the value last passed to onScoreUpdate
    gameOverCalls,      \* calls of onGameOver since the last reset
    keyEvents,          \* key events so far
    generatedCount,     \* platforms generated from freely chosen random draws
    shieldFall,         \* a shield was consumed and the player is still below the floor
    trip,               \* the Giant activation being followed, for the round trip
    collected,          \* per kind, the activations of this round
    cancelled,          \* the pending timeouts the latest resetGame cancelled
    twin,               \* player and platforms of a second run given the same
                        \* deltas and key events, which so far was identical
    lookup,             \* the latest getCurrentTier call: its argument and result
    throws,             \* the calls of onScoreUpdate or onGameOver that threw
    lastStep            \* what the latest physics step did in its platform loop

vars == << gameState, hostGameState, resetTrigger, player, platforms, score,
           keysPressed, now, lastTime, accumulator, readyEndTime, lastReadyCount,
           timeouts, nextTimerId, multiplierTimerRef, giantTimerRef,
           boosterTimerRef, pc, steps, lastScoreSent, gameOverCalls, keyEvents,
           generatedCount, shieldFall, trip, collected, cancelled, twin, lookup, throws, lastStep >>

\* ------------------------------------------------------------ tier lookup
\* variant: a threshold counts only once the score is above it
RECURSIVE TierFromStrict(_, _)
TierFromStrict(i, currentScore) ==
    IF i < 1 THEN SCORE_TIERS[1]
    ELSE IF currentScore > SCORE_TIERS[i].min THEN SCORE_TIERS[i]
    ELSE TierFromStrict(i - 1, currentScore)

\* for (let i = SCORE_TIERS.length - 1; i >= 0; i--) ...; return SCORE_TIERS[0]
RECURSIVE TierFrom(_, _)
TierFrom(i, currentScore) ==
    IF i < 1 THEN SCORE_TIERS[1]
    ELSE IF currentScore >= SCORE_TIERS[i].min THEN SCORE_TIERS[i]
    ELSE TierFrom(i - 1, currentScore)

getCurrentTier(currentScore) == TierFrom(Len(SCORE_TIERS), currentScore)

\* ------------------------------------------------------------ the player
\* The object literal of resetGame (and, with YELLOW's stats replaced by the
\* defaults, of the initial playerRef).
NewPlayer(type) ==
    [ x |-> CANVAS_WIDTH \div 2 - PLAYER_SIZE \div 2,
      y |-> CANVAS_HEIGHT - Px(150),
      vx |-> 0, vy |-> 0,
      width |-> PLAYER_SIZE, height |-> PLAYER_SIZE,
      type |-> type,
      baseJumpStrength |-> CHARACTER_SPECS[type].jumpStrength,
      gravity |-> CHARACTER_SPECS[type].gravity,
      moveSpeed |-> CHARACTER_SPECS[type].moveSpeed,
      shieldCount |-> 0,
      scoreMultiplierActive |-> FALSE, scoreMultiplierEndTime |-> 0,
      isGiant |-> FALSE, giantEndTime |-> 0,
      isBoosting |-> FALSE, boosterEndTime |-> 0 ]

StaticPlatform(x, y, width, powerUp) ==
    [ x |-> x, y |-> y, width |-> width, isMoving |-> FALSE, moveSpeed |-> 0,
      initialX |-> x, moveRange |-> 0, powerUp |-> powerUp ]

\* The five platforms resetGame lays out.
InitialPlatforms ==
    LET cx == CANVAS_WIDTH \div 2 - PLATFORM_WIDTH \div 2 IN
    << StaticPlatform(cx, CANVAS_HEIGHT - Px(50), PLATFORM_WIDTH, NoPowerUp),
       StaticPlatform(cx, CANVAS_HEIGHT - Px(170), PLATFORM_WIDTH, NoPowerUp),
       StaticPlatform(cx - Px(60), CANVAS_HEIGHT - Px(290), PLATFORM_WIDTH, NoPowerUp),
       StaticPlatform(cx + Px(60), CANVAS_HEIGHT - Px(410), PLATFORM_WIDTH, NoPowerUp),
       StaticPlatform(cx, CANVAS_HEIGHT - Px(530), PLATFORM_WIDTH, NoPowerUp) >>

CenterX(p) == p.x + p.width \div 2
CenterY(p) == p.y + p.height \div 2

\* ------------------------------------------------------ timeouts (host)
\* A pending callback: its id, the kind whose flag it clears, the time from
\* which it may run, and the round (resetTrigger) in which it was scheduled.
Timeout(id, kind, fireAt) ==
    [id |-> id, kind |-> kind, fireAt |-> fireAt, round |-> resetTrigger]

\* variant: the earlier timeout is left pending
ClearTimeoutKeeps(tos, ref) == tos

\* if (ref.current) clearTimeout(ref.current)
ClearTimeout(tos, ref) == IF ref # 0 THEN {t \in tos : t.id # ref} ELSE tos

\* ------------------------------------------------------ activatePowerUp
\* variant: a re-activation restarts the duration
ExtendedDurationFresh(base, active, endTime) == base

\* let duration = base; if (active && endTime && endTime > now) duration += endTime - now
ExtendedDuration(base, active, endTime) ==
    IF active /\ endTime # 0 /\ endTime > now THEN base + (endTime - now) ELSE base

\* variant: shields stack
CollectShieldStacks(p) == [p EXCEPT !.shieldCount = @ + 1]

\* p.shieldCount = 1
CollectShield(p) == [p EXCEPT !.shieldCount = 1]

\* variant: the size correction is applied at every activation
GiantGrowAgain(p) ==
    [p EXCEPT !.width = 2 * PLAYER_SIZE, !.height = 2 * PLAYER_SIZE,
              !.y = p.y - PLAYER_SIZE,
              !.x = p.x - PLAYER_SIZE \div 2]

\* if (!p.isGiant) { width, height = 2 x PLAYER_SIZE; y -= height - oldH; x -= (width - oldW) / 2 }
GiantGrow(p) ==
    IF p.isGiant THEN p
    ELSE LET w2 == 2 * PLAYER_SIZE
             h2 == 2 * PLAYER_SIZE
         IN [p EXCEPT !.width = w2, !.height = h2,
                      !.y = p.y - (h2 - p.height),
                      !.x = p.x - (w2 - p.width) \div 2]

\* variant: the expiry leaves the box doubled
GiantExpireKeepsSize(p) ==
    [p EXCEPT !.isGiant = FALSE,
              !.y = p.y + (p.height - PLAYER_SIZE),
              !.x = p.x + (p.width - PLAYER_SIZE) \div 2]

\* variant: the expiry does not move the box back horizontally
GiantExpireKeepsX(p) ==
    [p EXCEPT !.isGiant = FALSE,
              !.y = p.y + (p.height - PLAYER_SIZE),
              !.width = PLAYER_SIZE, !.height = PLAYER_SIZE]

\* the Giant timeout's callback
GiantExpire(p) ==
    [p EXCEPT !.isGiant = FALSE,
              !.y = p.y + (p.height - PLAYER_SIZE),
              !.x = p.x + (p.width - PLAYER_SIZE) \div 2,
              !.width = PLAYER_SIZE, !.height = PLAYER_SIZE]

\* variant: the callback leaves the flag set
MultiplierExpireKeepsFlag(p) == p

\* the ScoreMultiplier timeout's callback
MultiplierExpire(p) == [p EXCEPT !.scoreMultiplierActive = FALSE]

\* variant: the callback leaves the flag set
BoosterExpireKeepsFlag(p) == p

\* the Booster timeout's callback
BoosterExpire(p) == [p EXCEPT !.isBoosting = FALSE]

\* The world a physics step works on: the player, the platforms, the timeout
\* table and the three timer refs.  origin remembers the box centre and the
\* position around the step's inactive-to-active Giant transition, if any.
NoneCollected == [k \in PowerUpType |-> 0]

NoOrigin == [set |-> FALSE, cx |-> 0, cy |-> 0, x |-> 0, y |-> 0]

World ==
    [ p |-> player, plats |-> platforms, tos |-> timeouts, nextId |-> nextTimerId,
      mRef |-> multiplierTimerRef, gRef |-> giantTimerRef, bRef |-> boosterTimerRef,
      score |-> score, sent |-> lastScoreSent, overCalls |-> 0, shieldUsed |-> FALSE,
      activated |-> NoneCollected, landings |-> << >>, taken |-> << >>, dropped |-> 0,
      generated |-> FALSE, origin |-> NoOrigin ]

activatePowerUp(w, type) ==
    LET p == w.p IN
    IF type = SHIELD THEN
        [w EXCEPT !.p = CollectShield(p), !.activated[type] = @ + 1]
    ELSE IF type = SCORE_MULTIPLIER THEN
        LET duration == ExtendedDuration(POWERUP_DURATION, p.scoreMultiplierActive,
                                         p.scoreMultiplierEndTime)
        IN [w EXCEPT !.p = [p EXCEPT !.scoreMultiplierActive = TRUE,
                                     !.scoreMultiplierEndTime = now + duration],
                     !.tos = ClearTimeout(w.tos, w.mRef)
                                \cup {Timeout(w.nextId, type, now + duration)},
                     !.mRef = w.nextId,
                     !.nextId = w.nextId + 1,
                     !.activated[type] = @ + 1]
    ELSE IF type = GIANT THEN
        LET duration == ExtendedDuration(GIANT_DURATION, p.isGiant, p.giantEndTime)
            grown == GiantGrow(p)
        IN [w EXCEPT !.p = [grown EXCEPT !.isGiant = TRUE,
                                         !.giantEndTime = now + duration],
                     !.tos = ClearTimeout(w.tos, w.gRef)
                                \cup {Timeout(w.nextId, type, now + duration)},
                     !.gRef = w.nextId,
                     !.nextId = w.nextId + 1,
                     !.activated[type] = @ + 1,
                     !.origin = IF p.isGiant THEN w.origin
                                ELSE [set |-> TRUE, cx |-> CenterX(p), cy |-> CenterY(p),
                                      x |-> grown.x, y |-> grown.y]]
    ELSE
        LET duration == ExtendedDuration(BOOSTER_DURATION, p.isBoosting, p.boosterEndTime)
        IN [w EXCEPT !.p = [p EXCEPT !.isBoosting = TRUE,
                                     !.boosterEndTime = now + duration],
                     !.tos = ClearTimeout(w.tos, w.bRef)
                                \cup {Timeout(w.nextId, type, now + duration)},
                     !.bRef = w.nextId,
                     !.nextId = w.nextId + 1,
                     !.activated[type] = @ + 1]

\* --------------------------------------------------------- updatePhysics
\* 1. moving platforms
MovePlatform(p) ==
    IF p.isMoving /\ p.moveSpeed # 0 THEN
        LET x1 == p.x + p.moveSpeed
            s1 == IF x1 > p.initialX + p.moveRange \/ x1 < p.initialX - p.moveRange
                  THEN -p.moveSpeed ELSE p.moveSpeed
            x2 == IF x1 < 0 THEN 0 ELSE x1
            s2 == IF x1 < 0 THEN Abs(s1) ELSE s1
            over == x2 + p.width > CANVAS_WIDTH
            x3 == IF over THEN CANVAS_WIDTH - p.width ELSE x2
            s3 == IF over THEN -Abs(s2) ELSE s2
        IN [p EXCEPT !.x = x3, !.moveSpeed = s3]
    ELSE p

MovePlatforms(plats) == [i \in 1..Len(plats) |-> MovePlatform(plats[i])]

LeftHeld == "ArrowLeft" \in keysPressed \/ "KeyA" \in keysPressed
RightHeld == "ArrowRight" \in keysPressed \/ "KeyD" \in keysPressed

\* 2.-4. input, friction, x integration and the wall clamp
MoveHorizontal(p) ==
    LET vx1 == IF LeftHeld THEN p.vx - p.moveSpeed ELSE p.vx
        vx2 == IF RightHeld THEN vx1 + p.moveSpeed ELSE vx1
        vx3 == MulFrac(vx2, FRICTION_NUM, FRICTION_DEN)
        x1 == p.x + vx3
        x2 == IF x1 < 0 THEN 0 ELSE x1
        vx4 == IF x1 < 0 THEN 0 ELSE vx3
        over == x2 + p.width > CANVAS_WIDTH
    IN [p EXCEPT !.x = IF over THEN CANVAS_WIDTH - p.width ELSE x2,
                 !.vx = IF over THEN 0 ELSE vx4]

\* whether the step's wall clamp triggers: either of the two ifs is entered
WallHit(p) ==
    LET vx1 == IF LeftHeld THEN p.vx - p.moveSpeed ELSE p.vx
        vx2 == IF RightHeld THEN vx1 + p.moveSpeed ELSE vx1
        x1 == p.x + MulFrac(vx2, FRICTION_NUM, FRICTION_DEN)
    IN x1 < 0 \/ (IF x1 < 0 THEN 0 ELSE x1) + p.width > CANVAS_WIDTH

\* 5.-6. boost or gravity, y integration
MoveVertical(p) ==
    LET vy1 == IF p.isBoosting THEN BOOST_VY ELSE p.vy + p.gravity
    IN [p EXCEPT !.vy = vy1, !.y = p.y + vy1]

\* variant: the landing test is made whatever the vertical direction
LandsRising(p, plat) ==
    /\ ~p.isBoosting
    /\ p.x + p.width - Px(5) > plat.x
    /\ p.x + Px(5) < plat.x + plat.width
    /\ p.y + p.height >= plat.y
    /\ p.y + p.height <= plat.y + Px(20)

\* the landing test against one platform
Lands(p, plat) ==
    /\ p.vy > 0
    /\ ~p.isBoosting
    /\ p.x + p.width - Px(5) > plat.x
    /\ p.x + Px(5) < plat.x + plat.width
    /\ p.y + p.height >= plat.y
    /\ p.y + p.height <= plat.y + Px(20)

\* variant: the bounce keeps the horizontal speed
LandKeepsVx(p, plat) ==
    [p EXCEPT !.vy = p.baseJumpStrength,
              !.y = plat.y - p.height]

\* the standard bounce
Land(p, plat) ==
    [p EXCEPT !.vy = p.baseJumpStrength,
              !.y = plat.y - p.height,
              !.vx = MulFrac(p.vx, 5, 10)]

\* variant: the radius is the width, boosting or not
CollectionRadiusNarrow(p) == p.width

\* player.width * (player.isBoosting ? 1.5 : 1.0)
CollectionRadius(p) == IF p.isBoosting THEN MulFrac(p.width, 15, 10) ELSE p.width

\* Math.hypot(dx, dy) < collectionRadius
InReach(p, plat) ==
    LET dx == Abs(CenterX(p) - (plat.x + plat.width \div 2))
        dy == Abs(CenterY(p) - (plat.y - POWERUP_SIZE))
        r == CollectionRadius(p)
    IN dx < r /\ dy < r /\ dx * dx + dy * dy < r * r

\* variant: the token stays on the platform after the pick-up
InteractOneKeepsToken(w, i) ==
    LET plat == w.plats[i]
        w1 == IF Lands(w.p, plat)
              THEN [w EXCEPT !.p = Land(w.p, plat), !.landings = Append(@, i)]
              ELSE w
        w2 == activatePowerUp(w1, plat.powerUp)
    IN IF plat.powerUp # NoPowerUp /\ InReach(w1.p, plat)
       THEN [w2 EXCEPT
                !.taken = Append(@, [index |-> i, kind |-> plat.powerUp,
                                     was |-> w1.p, became |-> w2.p])]
       ELSE w1

\* one iteration of platforms.forEach(plat => ...); landings and taken list
\* the platforms that bounced the player and the tokens picked up, each with
\* the player as activatePowerUp found and left it
InteractOne(w, i) ==
    LET plat == w.plats[i]
        w1 == IF Lands(w.p, plat)
              THEN [w EXCEPT !.p = Land(w.p, plat), !.landings = Append(@, i)]
              ELSE w
        w2 == activatePowerUp(w1, plat.powerUp)
    IN IF plat.powerUp # NoPowerUp /\ InReach(w1.p, plat)
       THEN [w2 EXCEPT
                !.plats[i].powerUp = NoPowerUp,
                !.taken = Append(@, [index |-> i, kind |-> plat.powerUp,
                                     was |-> w1.p, became |-> w2.p])]
       ELSE w1

RECURSIVE Interact(_, _)
Interact(w, i) == IF i > Len(w.plats) THEN w ELSE Interact(InteractOne(w, i), i + 1)

\* variant: the ScoreMultiplier does not double the gain
GainedScoreUndoubled(diff, p, currentScore) ==
    (diff * getCurrentTier(currentScore).multiplier10) \div 1000

\* Math.floor(diff * multiplier * tier.multiplier)
GainedScore(diff, p, currentScore) ==
    (diff * (IF p.scoreMultiplierActive THEN 2 ELSE 1)
          * getCurrentTier(currentScore).multiplier10) \div 1000

\* variant: the scroll snaps the player and leaves the platforms where they are
ShiftSnapsOnly(w) ==
    LET diff == CANVAS_HEIGHT \div 2 - w.p.y
        total == w.score + GainedScore(diff, w.p, w.score)
    IN [w EXCEPT !.p.y = CANVAS_HEIGHT \div 2,
                 !.score = total,
                 !.sent = total]

\* variant: the scroll adds the gain and does not report it
ShiftSilent(w) ==
    LET diff == CANVAS_HEIGHT \div 2 - w.p.y
        moved == [i \in 1..Len(w.plats) |-> [w.plats[i] EXCEPT !.y = @ + diff]]
        total == w.score + GainedScore(diff, w.p, w.score)
    IN [w EXCEPT !.p.y = CANVAS_HEIGHT \div 2,
                 !.score = total,
                 !.plats = moved]

\* The scroll up to the call of onScoreUpdate: snap the player to the
\* midline, shift the platforms, add the score and report it.
Shift(w) ==
    LET diff == CANVAS_HEIGHT \div 2 - w.p.y
        moved == [i \in 1..Len(w.plats) |-> [w.plats[i] EXCEPT !.y = @ + diff]]
        total == w.score + GainedScore(diff, w.p, w.score)
    IN [w EXCEPT !.p.y = CANVAS_HEIGHT \div 2,
                 !.score = total,
                 !.sent = total,
                 !.plats = moved]

\* platformsRef.current = platforms.filter(p => p.y < CANVAS_HEIGHT)
Filter(w) ==
    LET kept == SelectSeq(w.plats, LAMBDA q : q.y < CANVAS_HEIGHT)
    IN [w EXCEPT !.plats = kept, !.dropped = Len(w.plats) - Len(kept)]

\* if (player.y < CANVAS_HEIGHT / 2): the scroll, then the platforms below the
\* floor are dropped
Scroll(w) == IF w.p.y < CANVAS_HEIGHT \div 2 THEN Filter(Shift(w)) ELSE w

\* whether this step appends a platform
Generates(wPre, w) ==
    /\ wPre.p.y < CANVAS_HEIGHT \div 2
    /\ Len(w.plats) > 0
    /\ w.plats[Len(w.plats)].y > Px(70)

\* One draw of every Math.random() the generation reads, each in hundredths
\* (0..99): gap, difficulty, xpos, moveRoll, sign, range, size1, size2,
\* spawnRoll, kindRoll.
Rnd(gap, difficulty, xpos, moveRoll, sign, range, size1, size2, spawnRoll, kindRoll) ==
    [ gap |-> gap, difficulty |-> difficulty, xpos |-> xpos, moveRoll |-> moveRoll,
      sign |-> sign, range |-> range, size1 |-> size1, size2 |-> size2,
      spawnRoll |-> spawnRoll, kindRoll |-> kindRoll ]

\* newWidth before the moving-platform passes
BaseWidth(currentScore, r) ==
    LET randomised == MulFrac(PLATFORM_WIDTH, 8000 + 40 * r.difficulty, 10000)
    IN IF currentScore > 500
       THEN Max(PLATFORM_WIDTH - MulFrac(PLATFORM_WIDTH, Min(currentScore - 500, 2500), 5000),
                Px(45))
       ELSE randomised

\* newWidth = max(40, min(newWidth * (0.7 + random * 0.6), PLATFORM_WIDTH * 1.5))
Resize(width, u) ==
    Max(Px(40), Min(MulFrac(width, 70 + (60 * u) \div 100, 100), MulFrac(PLATFORM_WIDTH, 15, 10)))

NewPlatform(lastPlat, currentScore, r) ==
    LET gapY == Px(60) + 50 * r.gap
        y == lastPlat.y - gapY
        w0 == BaseWidth(currentScore, r)
        minX == Max(0, lastPlat.x - Px(200))
        maxX == Min(CANVAS_WIDTH - w0, lastPlat.x + Px(200))
        x0 == Max(0, Min(MulFrac(maxX - minX, r.xpos, 100) + minX, CANVAS_WIDTH - w0))
        chance == IF currentScore > 3000 THEN 60 ELSE 30
        isMoving == currentScore > 1500 /\ r.moveRoll < chance
        baseSpeed == IF currentScore > 3000 THEN 250 ELSE 150
        moveSpeed == IF ~isMoving THEN 0 ELSE IF r.sign > 50 THEN baseSpeed ELSE -baseSpeed
        moveRange == IF isMoving THEN Px(50) + 50 * r.range ELSE 0
        ix1 == IF x0 - moveRange < 0 THEN moveRange ELSE x0
        ix2 == IF ix1 + moveRange + w0 > CANVAS_WIDTH THEN CANVAS_WIDTH - w0 - moveRange ELSE ix1
        initialX == IF isMoving THEN ix2 ELSE x0
        width == IF isMoving THEN Resize(Resize(w0, r.size1), r.size2) ELSE w0
        powerUp == IF r.spawnRoll >= 10 THEN NoPowerUp
                   ELSE IF r.kindRoll < 25 THEN SHIELD
                   ELSE IF r.kindRoll < 50 THEN SCORE_MULTIPLIER
                   ELSE IF r.kindRoll < 75 THEN GIANT
                   ELSE BOOSTER
    IN [ x |-> initialX, y |-> y, width |-> width, isMoving |-> isMoving,
         moveSpeed |-> moveSpeed, initialX |-> initialX, moveRange |-> moveRange,
         powerUp |-> powerUp ]

\* variant: the new platform is put at the front of the list
GeneratePrepends(wPre, w, currentScore, r) ==
    IF Generates(wPre, w)
    THEN [w EXCEPT !.plats = << NewPlatform(w.plats[Len(w.plats)], currentScore, r) >> \o @,
                   !.generated = TRUE]
    ELSE w

\* if (lastPlat && lastPlat.y > 70) platformsRef.current.push(...)
Generate(wPre, w, currentScore, r) ==
    IF Generates(wPre, w)
    THEN [w EXCEPT !.plats = Append(@, NewPlatform(w.plats[Len(w.plats)], currentScore, r)),
                   !.generated = TRUE]
    ELSE w

\* if (player.y > CANVAS_HEIGHT): the shield bounce, or the round ends
FallThrough(w) ==
    IF w.p.y > CANVAS_HEIGHT THEN
        IF w.p.shieldCount > 0
        THEN [w EXCEPT !.p.shieldCount = @ - 1,
                       !.p.vy = MulFrac(w.p.baseJumpStrength, 15, 10),
                       !.shieldUsed = TRUE]
        ELSE [w EXCEPT !.overCalls = @ + 1]
    ELSE w

\* the step up to the platform interactions
Advanced ==
    LET w == World
    IN [w EXCEPT !.plats = MovePlatforms(w.plats),
                 !.p = MoveVertical(MoveHorizontal(w.p))]

\* the step up to and including the platform interactions
Integrated == Interact(Advanced, 1)

\* the step after the platform interactions: scroll, generation, fall-through
Finish(wPre, r) == FallThrough(Generate(wPre, Scroll(wPre), score, r))

\* one whole physics step, with r the random draws its generation reads
updatePhysics(r) == Finish(Integrated, r)

\* ---------------------------------------------------------- random draws
\* a static platform of base width straight above the last one, no token
DefaultDraw == Rnd(50, 50, 50, 99, 0, 0, 50, 50, 99, 0)

RandomDraws ==
    { DefaultDraw,
      Rnd(0, 0, 0, 99, 0, 0, 50, 50, 5, 10),
      Rnd(99, 99, 99, 99, 0, 0, 50, 50, 5, 30),
      Rnd(0, 99, 50, 10, 99, 0, 99, 99, 5, 60),
      Rnd(99, 0, 50, 10, 0, 99, 0, 0, 5, 80),
      Rnd(0, 99, 99, 10, 99, 0, 99, 99, 99, 0) }

\* ---------------------------------------------------------------- ghosts
\* a call of getCurrentTier
TierLookup(currentScore) == [of |-> currentScore, tier |-> getCurrentTier(currentScore)]

\* What a physics step did: the platforms whose landing test the player
\* passed when the platform loop began, the platforms that bounced it, the
\* tokens picked up, the diff of its scroll (0 when it did not scroll), the
\* platforms the scroll then dropped, whether it generated a platform and
\* from which draws, and whether the shield was used.
StepLog(w0, wPre, w, r) ==
    [ matching |-> {i \in 1..Len(w0.plats) : Lands(w0.p, w0.plats[i])},
      landings |-> w.landings, taken |-> w.taken,
      diff |-> IF wPre.p.y < CANVAS_HEIGHT \div 2 THEN CANVAS_HEIGHT \div 2 - wPre.p.y ELSE 0,
      dropped |-> w.dropped,
      generated |-> w.generated,
      draw |-> IF w.generated THEN r ELSE DefaultDraw,
      shieldUsed |-> w.shieldUsed ]

NoStep ==
    [ matching |-> {}, landings |-> << >>, taken |-> << >>, diff |-> 0, dropped |-> 0,
      generated |-> FALSE, draw |-> DefaultDraw, shieldUsed |-> FALSE ]

\* what is compared of two runs: the player and the platform list
Twin(p, plats) == [p |-> p, plats |-> plats]

NoTrip == [state |-> "none", cx |-> 0, cy |-> 0]

\* after a physics step: a Giant grown in this step and not moved since
TripAfterStep(w) ==
    IF w.origin.set /\ w.p.isGiant /\ w.p.x = w.origin.x /\ w.p.y = w.origin.y
    THEN [state |-> "out", cx |-> w.origin.cx, cy |-> w.origin.cy]
    ELSE NoTrip

\* --------------------------------------------------------------- actions
\* the codes the key handlers are given (KeyA and KeyD are read like the arrows)
KeyCodes == {"ArrowLeft", "ArrowRight"}

Due(t) == now >= t.fireAt
NoDueTimeout == \A t \in timeouts : ~Due(t)

\* variant: resetGame leaves the Giant timeout pending
ResetTimeoutsKeepsGiant(tos) ==
    ClearTimeout(ClearTimeout(tos, multiplierTimerRef), boosterTimerRef)

\* resetGame's three clearTimeout calls
ResetTimeouts(tos) ==
    ClearTimeout(ClearTimeout(ClearTimeout(tos, multiplierTimerRef), giantTimerRef),
                 boosterTimerRef)

\* resetGame, and the effect that restarts the loop timing
ResetGame(type) ==
    /\ timeouts' = ResetTimeouts(timeouts)
    /\ keysPressed' = {}
    /\ player' = NewPlayer(type)
    /\ platforms' = InitialPlatforms
    /\ score' = 0
    /\ readyEndTime' = now + READY_TIME
    /\ lastReadyCount' = 1
    /\ lastTime' = now
    /\ accumulator' = 0
    /\ lastScoreSent' = 0
    /\ UNCHANGED << nextTimerId, multiplierTimerRef, giantTimerRef, boosterTimerRef >>

\* App.startGame: setGameState(PLAYING) and setResetTrigger(prev + 1)
StartGame(type) ==
    /\ pc = "idle"
    /\ gameState = hostGameState
    /\ gameState \in {"START", "GAME_OVER"}
    /\ resetTrigger < MaxRounds
    /\ now <= MaxNow
    /\ ResetGame(type)
    /\ gameState' = "PLAYING"
    /\ hostGameState' = "PLAYING"
    /\ resetTrigger' = resetTrigger + 1
    /\ gameOverCalls' = 0
    /\ shieldFall' = FALSE
    /\ trip' = NoTrip
    /\ collected' = NoneCollected
    /\ cancelled' = Cardinality(timeouts) - Cardinality(ResetTimeouts(timeouts))
    /\ twin' = Twin(NewPlayer(type), InitialPlatforms)
    /\ lastStep' = NoStep
    /\ UNCHANGED << now, pc, steps, keyEvents, generatedCount, lookup, throws >>

\* React re-renders GameCanvas with the gameState the host has set; the effect
\* creating animate runs again
HostRender ==
    /\ pc = "idle"
    /\ gameState # hostGameState
    /\ gameState' = hostGameState
    /\ lastTime' = now
    /\ accumulator' = 0
    /\ UNCHANGED << hostGameState, resetTrigger, player, platforms, score, keysPressed,
                    now, readyEndTime, lastReadyCount, timeouts, nextTimerId,
                    multiplierTimerRef, giantTimerRef, boosterTimerRef, pc, steps,
                    lastScoreSent, gameOverCalls, keyEvents, generatedCount,
                    shieldFall, trip, collected, cancelled, twin, lookup, throws, lastStep >>

KeyDown(code) ==
    /\ pc = "idle"
    /\ keyEvents < MaxKeyEvents
    /\ readyEndTime - MaxKeyTime <= now
    /\ now <= readyEndTime + MaxKeyTime
    /\ code \notin keysPressed
    /\ keysPressed' = keysPressed \cup {code}
    /\ keyEvents' = keyEvents + 1
    /\ UNCHANGED << gameState, hostGameState, resetTrigger, player, platforms, score,
                    now, lastTime, accumulator, readyEndTime, lastReadyCount, timeouts,
                    nextTimerId, multiplierTimerRef, giantTimerRef, boosterTimerRef,
                    pc, steps, lastScoreSent, gameOverCalls, generatedCount,
                    shieldFall, trip, collected, cancelled, twin, lookup, throws, lastStep >>

KeyUp(code) ==
    /\ pc = "idle"
    /\ keyEvents < MaxKeyEvents
    /\ readyEndTime - MaxKeyTime <= now
    /\ now <= readyEndTime + MaxKeyTime
    /\ code \in keysPressed
    /\ keysPressed' = keysPressed \ {code}
    /\ keyEvents' = keyEvents + 1
    /\ UNCHANGED << gameState, hostGameState, resetTrigger, player, platforms, score,
                    now, lastTime, accumulator, readyEndTime, lastReadyCount, timeouts,
                    nextTimerId, multiplierTimerRef, giantTimerRef, boosterTimerRef,
                    pc, steps, lastScoreSent, gameOverCalls, generatedCount,
                    shieldFall, trip, collected, cancelled, twin, lookup, throws, lastStep >>

\* the time from one animation frame to the next: a 60 Hz or a 30 Hz frame
FrameTimes == {FIXED_TIMESTEP, 2 * FIXED_TIMESTEP}

\* Wall-clock time passes until the next animation frame of a round being
\* played.
AdvanceClock(d) ==
    /\ pc = "idle"
    /\ hostGameState = "PLAYING"
    /\ now = lastTime
    /\ NoDueTimeout
    /\ now + d <= MaxNow
    /\ now' = now + d
    /\ UNCHANGED << gameState, hostGameState, resetTrigger, player, platforms, score,
                    keysPressed, lastTime, accumulator, readyEndTime, lastReadyCount,
                    timeouts, nextTimerId, multiplierTimerRef, giantTimerRef,
                    boosterTimerRef, pc, steps, lastScoreSent, gameOverCalls,
                    keyEvents, generatedCount, shieldFall, trip, collected, cancelled, twin, lookup, throws, lastStep >>

\* Wall-clock time passes, with no frame, until the earliest pending timeout
\* is due: outside a round, or once the frames are no longer followed.
TimerWait ==
    /\ pc = "idle"
    /\ hostGameState # "PLAYING" \/ now + FIXED_TIMESTEP > MaxNow
    /\ timeouts # {}
    /\ NoDueTimeout
    /\ \E t \in timeouts :
          /\ \A u \in timeouts : t.fireAt <= u.fireAt
          /\ now' = t.fireAt
    /\ UNCHANGED << gameState, hostGameState, resetTrigger, player, platforms, score,
                    keysPressed, lastTime, accumulator, readyEndTime, lastReadyCount,
                    timeouts, nextTimerId, multiplierTimerRef, giantTimerRef,
                    boosterTimerRef, pc, steps, lastScoreSent, gameOverCalls,
                    keyEvents, generatedCount, shieldFall, trip, collected, cancelled, twin, lookup, throws, lastStep >>

\* what a timeout's callback does to the player
Expire(p, kind) ==
    IF kind = SCORE_MULTIPLIER THEN MultiplierExpire(p)
    ELSE IF kind = GIANT THEN GiantExpire(p)
    ELSE BoosterExpire(p)

\* the host runs a due timeout's callback
FireTimeout(t) ==
    /\ pc = "idle"
    /\ t \in timeouts
    /\ Due(t)
    /\ timeouts' = timeouts \ {t}
    /\ player' = Expire(player, t.kind)
    /\ twin' = [twin EXCEPT !.p = Expire(twin.p, t.kind)]
    /\ trip' = IF t.kind = GIANT
               THEN IF trip.state = "out" THEN [trip EXCEPT !.state = "back"] ELSE NoTrip
               ELSE trip
    /\ UNCHANGED << gameState, hostGameState, resetTrigger, platforms, score,
                    keysPressed, now, lastTime, accumulator, readyEndTime,
                    lastReadyCount, nextTimerId, multiplierTimerRef, giantTimerRef,
                    boosterTimerRef, pc, steps, lastScoreSent, gameOverCalls,
                    keyEvents, generatedCount, shieldFall, collected, cancelled, lookup, throws, lastStep >>

\* variant: animate does not wait for the ready phase to end
ReadyPhaseSkipped == FALSE

\* const readyTimeRemaining = readyEndTimeRef.current - now; if (readyTimeRemaining > 0)
ReadyPhase == readyEndTime - now > 0

\* variant: the elapsed time is taken as it is
ElapsedUncapped(last) == now - last

\* let deltaTime = now - lastTimeRef.current; if (deltaTime > MAX_DELTA_TIME) deltaTime = MAX_DELTA_TIME
Elapsed(last) == Min(now - last, MAX_DELTA_TIME)

\* animate, up to the while loop
Animate ==
    /\ pc = "idle"
    /\ LET last == IF lastTime = 0 THEN now ELSE lastTime
           deltaTime == Elapsed(last)
           running == gameState = "PLAYING" /\ ~ReadyPhase
           acc == IF running THEN accumulator + deltaTime ELSE accumulator
       IN /\ lastTime' = now
          /\ lastReadyCount' = IF running THEN 0 ELSE lastReadyCount
          /\ accumulator' = acc
          /\ pc' = IF running /\ acc >= FIXED_TIMESTEP THEN "loop" ELSE "idle"
          /\ steps' = 0
    /\ UNCHANGED << gameState, hostGameState, resetTrigger, player, platforms, score,
                    keysPressed, now, readyEndTime, timeouts, nextTimerId,
                    multiplierTimerRef, giantTimerRef, boosterTimerRef, lastScoreSent,
                    gameOverCalls, keyEvents, generatedCount, shieldFall, trip, collected, cancelled, twin, lookup, throws, lastStep >>

\* a frame of the time the frames are followed for
Frame == now <= MaxNow /\ Animate

\* What a physics step's callbacks may do: return, or (one of them) throw.
\* onScoreUpdate is called by a step that scrolls, onGameOver by a step that
\* ends below the floor with no shield.
Outcomes(wPre, w) ==
    {"returns"}
    \cup (IF throws < MaxThrows /\ wPre.p.y < CANVAS_HEIGHT \div 2
          THEN {"onScoreUpdate throws"} ELSE {})
    \cup (IF throws < MaxThrows /\ w.overCalls > 0
          THEN {"onGameOver throws"} ELSE {})

\* one iteration of animate's while loop: updatePhysics, then the loop's
\* bookkeeping; the iteration that leaves the loop ends the tick.  No
\* try/catch stands between a callback and animate: a throw leaves
\* updatePhysics where the callback was called, and animate before
\* requestAnimationFrame.
PhysicsStep ==
    /\ pc = "loop"
    /\ LET w0 == Advanced
           wPre == Interact(w0, 1)
           free == Generates(wPre, Scroll(wPre)) /\ generatedCount < MaxRandomPlatforms
       IN \E r \in (IF free THEN RandomDraws ELSE {DefaultDraw}) :
          LET wr == Finish(wPre, r) IN
          \E outcome \in Outcomes(wPre, wr) :
            LET ok == outcome = "returns"
                w == IF outcome = "onScoreUpdate throws" THEN Shift(wPre) ELSE wr
                acc == accumulator - FIXED_TIMESTEP
            IN /\ player' = w.p
               /\ platforms' = w.plats
               /\ score' = w.score
               /\ lastScoreSent' = w.sent
               /\ timeouts' = w.tos
               /\ nextTimerId' = w.nextId
               /\ multiplierTimerRef' = w.mRef
               /\ giantTimerRef' = w.gRef
               /\ boosterTimerRef' = w.bRef
               /\ gameOverCalls' = Min(gameOverCalls + w.overCalls, MaxGameOverCalls)
               /\ hostGameState' = IF w.overCalls > 0 /\ ok THEN "GAME_OVER" ELSE hostGameState
               /\ generatedCount' = IF free /\ w.generated THEN generatedCount + 1
                                    ELSE generatedCount
               /\ shieldFall' = IF w.shieldUsed THEN TRUE
                                ELSE IF w.p.y <= CANVAS_HEIGHT THEN FALSE
                                ELSE shieldFall
               /\ trip' = TripAfterStep(w)
               /\ collected' = [k \in PowerUpType |-> collected[k] + w.activated[k]]
               /\ lookup' = IF wPre.p.y < CANVAS_HEIGHT \div 2 THEN TierLookup(score) ELSE lookup
               /\ throws' = IF ok THEN throws ELSE throws + 1
               /\ lastStep' = StepLog(w0, wPre, w, r)
               /\ IF ok
                  THEN \E r2 \in {r, DefaultDraw} :
                          LET w2 == Finish(wPre, r2) IN twin' = Twin(w2.p, w2.plats)
                  ELSE twin' = Twin(w.p, w.plats)
               /\ steps' = IF ~ok THEN steps
                           ELSE IF steps + 1 > MAX_STEPS \/ acc < FIXED_TIMESTEP THEN 0
                           ELSE steps + 1
               /\ accumulator' = IF ~ok THEN accumulator
                                 ELSE IF steps + 1 > MAX_STEPS THEN 0 ELSE acc
               /\ pc' = IF ~ok THEN "halted"
                        ELSE IF steps + 1 > MAX_STEPS \/ acc < FIXED_TIMESTEP THEN "idle"
                        ELSE "loop"
    /\ UNCHANGED << gameState, resetTrigger, keysPressed, now, lastTime, readyEndTime,
                    lastReadyCount, keyEvents, cancelled >>

\* ------------------------------------------------------------------ init
\* The component as mounted by App: gameState START, and resetGame has run.
Mounted ==
    [ gameState |-> "START", resetTrigger |-> 0, now |-> 0,
      player |-> NewPlayer("YELLOW"), platforms |-> InitialPlatforms, score |-> 0,
      keysPressed |-> {}, timeouts |-> {}, giantTimerRef |-> 0, nextTimerId |-> 1,
      lastReadyCount |-> 1 ]

\* Snapshots of a round in progress, taken between two frames just after the
\* ready phase of the first round (score 3200: platforms are 52.5 wide).
\* The platforms are a column 70 apart reaching the top of the canvas.
Column(kit) ==
    << StaticPlatform(17375, Px(580), 5250, NoPowerUp),
       StaticPlatform(14375, Px(510), 5250, kit[1]),
       StaticPlatform(14875, Px(440), 5250, kit[2]),
       StaticPlatform(12375, Px(370), 5250, kit[3]),
       StaticPlatform(15375, Px(300), 5250, NoPowerUp),
       StaticPlatform(15375, Px(230), 5250, NoPowerUp),
       StaticPlatform(15375, Px(160), 5250, NoPowerUp),
       StaticPlatform(15375, Px(90), 5250, NoPowerUp),
       StaticPlatform(15375, Px(20), 5250, NoPowerUp) >>

NoKit == << NoPowerUp, NoPowerUp, NoPowerUp >>

\* the tokens on the second, third and fourth platform of the column
TokenKits ==
    { << SHIELD, SHIELD, SCORE_MULTIPLIER >>,
      << SCORE_MULTIPLIER, SCORE_MULTIPLIER, BOOSTER >>,
      << GIANT, GIANT, SHIELD >>,
      << BOOSTER, BOOSTER, GIANT >>,
      << GIANT, BOOSTER, SCORE_MULTIPLIER >> }

InPlay(p, plats, keys, tos, gRef, nextId) ==
    [ gameState |-> "PLAYING", resetTrigger |-> 1, now |-> READY_TIME,
      player |-> p, platforms |-> plats, score |-> 3200, keysPressed |-> keys,
      timeouts |-> tos, giantTimerRef |-> gRef, nextTimerId |-> nextId,
      lastReadyCount |-> 0 ]

\* The player has just landed on the centre of platform i of the column,
\* arriving from the right with ArrowLeft held, and rises through the column.
LandedOn(type, kit, i) ==
    LET plat == Column(kit)[i]
    IN InPlay([NewPlayer(type) EXCEPT !.x = plat.x + plat.width \div 2 - PLAYER_SIZE \div 2,
                                      !.y = plat.y - PLAYER_SIZE,
                                      !.vx = -240,
                                      !.vy = CHARACTER_SPECS[type].jumpStrength],
              Column(kit), {"ArrowLeft"}, {}, 0, 1)

\* on the lowest platform, below the tokens
JustLanded(type, kit) == LandedOn(type, kit, 1)

\* on the fourth platform, from where the jump crosses the midline
LandedHigh(type) == LandedOn(type, NoKit, 4)

\* The column earlier in the round, at a score at which generated platforms
\* are wider and may move; the player has just landed on its fourth platform.
EarlyScore == 1600

EarlyColumn ==
    [i \in 1..Len(Column(NoKit)) |->
        [Column(NoKit)[i] EXCEPT !.width = BaseWidth(EarlyScore, DefaultDraw)]]

LandedEarly(type) ==
    LET plat == EarlyColumn[4]
    IN [InPlay([NewPlayer(type) EXCEPT
                    !.x = plat.x + plat.width \div 2 - PLAYER_SIZE \div 2,
                    !.y = plat.y - PLAYER_SIZE,
                    !.vx = -240,
                    !.vy = CHARACTER_SPECS[type].jumpStrength],
               EarlyColumn, {"ArrowLeft"}, {}, 0, 1)
        EXCEPT !.score = EarlyScore]

\* The column when its two lowest platforms were generated at the left wall,
\* the second one with a Giant token.
WallColumn ==
    [Column(NoKit) EXCEPT ![1] = StaticPlatform(0, Px(580), 5250, NoPowerUp),
                          ![2] = StaticPlatform(Px(5), Px(510), 5250, GIANT)]

\* The player has just landed on the lowest platform of that column, held
\* against the left wall by ArrowLeft.
LandedAtWall(type) ==
    InPlay([NewPlayer(type) EXCEPT !.x = 0,
                                   !.y = WallColumn[1].y - PLAYER_SIZE,
                                   !.vy = CHARACTER_SPECS[type].jumpStrength],
           WallColumn, {"ArrowLeft"}, {}, 0, 1)

\* The player is in free fall from the midline beside the right wall, clear
\* of the column, with or without a shield; as a Giant, its timeout is due
\* five fixed steps from now.
FallSpeed(type) == IF type = "YELLOW" THEN 1500 ELSE 1330
FallY(type) == IF type = "YELLOW" THEN 53250 ELSE 53940

Falling(type, shields, giant) ==
    LET base == [NewPlayer(type) EXCEPT !.x = Px(340), !.y = FallY(type),
                                        !.vy = FallSpeed(type),
                                        !.shieldCount = shields]
        due == READY_TIME + 5 * FIXED_TIMESTEP
        big == [base EXCEPT !.x = Px(320), !.width = 2 * PLAYER_SIZE,
                            !.height = 2 * PLAYER_SIZE,
                            !.isGiant = TRUE, !.giantEndTime = due]
    IN IF giant
       THEN InPlay(big, Column(NoKit), {},
                   {[id |-> 1, kind |-> GIANT, fireAt |-> due, round |-> 1]}, 1, 2)
       ELSE InPlay(base, Column(NoKit), {}, {}, 0, 1)

Snapshots ==
    {Mounted}
    \cup {JustLanded(type, kit) : type \in CharacterType, kit \in TokenKits}
    \cup {LandedHigh(type) : type \in CharacterType}
    \cup {LandedAtWall(type) : type \in CharacterType}
    \cup {LandedEarly(type) : type \in CharacterType}
    \cup {Falling(type, shields, giant) :
            type \in CharacterType, shields \in {0, 1}, giant \in BOOLEAN}

InitFrom(S) ==
    \E s \in S :
        /\ gameState = s.gameState
        /\ hostGameState = s.gameState
        /\ resetTrigger = s.resetTrigger
        /\ player = s.player
        /\ platforms = s.platforms
        /\ score = s.score
        /\ keysPressed = s.keysPressed
        /\ now = s.now
        /\ lastTime = s.now
        /\ accumulator = 0
        /\ readyEndTime = READY_TIME
        /\ lastReadyCount = s.lastReadyCount
        /\ timeouts = s.timeouts
        /\ nextTimerId = s.nextTimerId
        /\ multiplierTimerRef = 0
        /\ giantTimerRef = s.giantTimerRef
        /\ boosterTimerRef = 0
        /\ pc = "idle"
        /\ steps = 0
        /\ lastScoreSent = s.score
        /\ gameOverCalls = 0
        /\ keyEvents = 0
        /\ shieldFall = FALSE
        /\ trip = NoTrip
        /\ collected = [NoneCollected EXCEPT ![GIANT] = IF s.player.isGiant THEN 1 ELSE 0]
        /\ cancelled = 0
        /\ twin = Twin(s.player, s.platforms)
        /\ lookup = TierLookup(0)
        /\ lastStep = NoStep

Init == InitFrom(Snapshots) /\ generatedCount = 0 /\ throws = 0

Next ==
    \/ \E type \in CharacterType : StartGame(type)
    \/ HostRender
    \/ \E code \in KeyCodes : KeyDown(code)
    \/ \E code \in KeyCodes : KeyUp(code)
    \/ \E d \in FrameTimes : AdvanceClock(d)
    \/ TimerWait
    \/ \E t \in timeouts : FireTimeout(t)
    \/ Frame
    \/ PhysicsStep

Spec == Init /\ [][Next]_vars

\* ------------------------------------------------- frames may stop coming
\* The round while the page may be hidden at any moment: no frame is
\* delivered, and wall-clock time passes until the earliest pending timeout
\* is due.
Stall ==
    /\ pc = "idle"
    /\ timeouts # {}
    /\ NoDueTimeout
    /\ \E t \in timeouts :
          /\ \A u \in timeouts : t.fireAt <= u.fireAt
          /\ now' = t.fireAt
    /\ UNCHANGED << gameState, hostGameState, resetTrigger, player, platforms, score,
                    keysPressed, lastTime, accumulator, readyEndTime, lastReadyCount,
                    timeouts, nextTimerId, multiplierTimerRef, giantTimerRef,
                    boosterTimerRef, pc, steps, lastScoreSent, gameOverCalls,
                    keyEvents, generatedCount, shieldFall, trip, collected, cancelled, twin, lookup, throws, lastStep >>

\* the rounds rising through a column of tokens; generated platforms use
\* DefaultDraw, and the host's callbacks return
TimerInit ==
    /\ InitFrom({JustLanded(type, kit) : type \in CharacterType, kit \in TokenKits})
    /\ generatedCount = MaxRandomPlatforms
    /\ throws = MaxThrows

TimerNext ==
    \/ \E d \in FrameTimes : AdvanceClock(d)
    \/ Stall
    \/ \E t \in timeouts : FireTimeout(t)
    \/ Frame
    \/ PhysicsStep

\* Time passes, a due callback is run, and animate's loop, once entered, runs
\* to its end (every iteration is enabled, and it is left within MAX_STEPS).
TimerSpec ==
    /\ TimerInit
    /\ [][TimerNext]_vars
    /\ WF_vars(Stall)
    /\ WF_vars(\E t \in timeouts : FireTimeout(t))
    /\ []<>(pc = "idle")

\* ------------------------------------------------------- the tier lookup
\* A round at any score up to MaxScore, and the lookup the scroll makes
\* (const tier = getCurrentTier(scoreRef.current)).
TierInit ==
    /\ \E type \in CharacterType, currentScore \in 0..MaxScore :
           InitFrom({[LandedHigh(type) EXCEPT !.score = currentScore]})
    /\ generatedCount = 0
    /\ throws = 0

GetTier ==
    /\ pc = "idle"
    /\ lookup' = TierLookup(score)
    /\ UNCHANGED << gameState, hostGameState, resetTrigger, player, platforms, score,
                    keysPressed, now, lastTime, accumulator, readyEndTime,
                    lastReadyCount, timeouts, nextTimerId, multiplierTimerRef,
                    giantTimerRef, boosterTimerRef, pc, steps, lastScoreSent,
                    gameOverCalls, keyEvents, generatedCount, shieldFall, trip,
                    collected, cancelled, twin, throws, lastStep >>

TierNext == GetTier

TierSpec == TierInit /\ [][TierNext]_vars

\* ------------------------------------------------ the landing loop alone
\* The platform loop given platforms that overlap vertically: the column
\* with its second platform lift above the first (the generator leaves at
\* least 60 between two platforms, so these lists are inputs of the loop, not
\* states of a round).  The player falls onto the two platforms.
OverlapColumn(lift) ==
    [Column(NoKit) EXCEPT
        ![2] = StaticPlatform(Column(NoKit)[1].x + Px(10), Column(NoKit)[1].y - lift,
                              Column(NoKit)[1].width, NoPowerUp)]

FallingOnto(type, lift) ==
    InPlay([NewPlayer(type) EXCEPT !.x = Px(180), !.y = FallY(type) - Px(20),
                                   !.vy = FallSpeed(type)],
           OverlapColumn(lift), {}, {}, 0, 1)

\* The spec's scenario: score 0, a YELLOW player (jump strength -15, gravity
\* 0.5) falling at 7 per step onto a platform at y = 585, the lowest of the
\* layout of resetGame moved down to there.
FallingAtStart ==
    [InPlay([NewPlayer("YELLOW") EXCEPT !.y = Px(540), !.vy = Px(7)],
            [InitialPlatforms EXCEPT ![1].y = Px(585)], {}, {}, 0, 1)
     EXCEPT !.score = 0]

LandingInit ==
    /\ InitFrom({FallingOnto(type, lift) :
                    type \in CharacterType, lift \in {Px(3), Px(5), Px(8)}}
                \cup {FallingAtStart})
    /\ generatedCount = MaxRandomPlatforms
    /\ throws = MaxThrows

LandingNext ==
    \/ \E code \in KeyCodes : KeyDown(code)
    \/ \E d \in FrameTimes : AdvanceClock(d)
    \/ Frame
    \/ PhysicsStep

LandingSpec == LandingInit /\ [][LandingNext]_vars

\* ------------------------------------------------------ frames that lag
\* The time to the next frame when the page lagged or was in the background:
\* MAX_DELTA_TIME, and a fixed step more than that.
LongFrameTimes == {MAX_DELTA_TIME, MAX_DELTA_TIME + FIXED_TIMESTEP}

\* the player has just landed on the lowest platform of an empty column
CatchUpInit ==
    /\ InitFrom({JustLanded(type, NoKit) : type \in CharacterType})
    /\ generatedCount = MaxRandomPlatforms
    /\ throws = MaxThrows

CatchUpNext ==
    \/ \E d \in FrameTimes : AdvanceClock(d)
    \/ \E d \in LongFrameTimes : AdvanceClock(d)
    \/ Frame
    \/ PhysicsStep

CatchUpSpec == CatchUpInit /\ [][CatchUpNext]_vars

\* ------------------------------------------------- rounds at the midline
\* The column after a scroll moved it to 30 above where Column has it, with a
\* token on its fourth platform (y = 340), just below the midline.
MidlineColumn(kind) ==
    [i \in 1..Len(Column(NoKit)) |->
        [Column(<< NoPowerUp, NoPowerUp, kind >>)[i] EXCEPT !.y = @ - Px(30)]]

\* The player has just landed on the centre of the third platform, arriving
\* from the right with ArrowLeft held: the jump passes the token and crosses
\* the midline.
LandedBelowToken(type, kind) ==
    LET plat == MidlineColumn(kind)[3]
    IN InPlay([NewPlayer(type) EXCEPT !.x = plat.x + plat.width \div 2 - PLAYER_SIZE \div 2,
                                      !.y = plat.y - PLAYER_SIZE,
                                      !.vx = -240,
                                      !.vy = CHARACTER_SPECS[type].jumpStrength],
              MidlineColumn(kind), {"ArrowLeft"}, {}, 0, 1)

\* generated platforms use DefaultDraw, and the host's callbacks return
MidlineInit ==
    /\ InitFrom({LandedBelowToken(type, kind) : type \in CharacterType, kind \in PowerUpType})
    /\ generatedCount = MaxRandomPlatforms
    /\ throws = MaxThrows

MidlineNext ==
    \/ \E code \in KeyCodes : KeyDown(code)
    \/ \E code \in KeyCodes : KeyUp(code)
    \/ \E d \in FrameTimes : AdvanceClock(d)
    \/ Frame
    \/ PhysicsStep

MidlineSpec == MidlineInit /\ [][MidlineNext]_vars

\* ----------------------------------------------------------------- claims
\* C1: in a round the round-end callback is invoked at most once; no physics
\* step after the one that reported the round end invokes it again.
C1_RoundEndOnce == gameOverCalls <= 1

\* C2: once a physics step has reported the round end, animate's loop is
\* not about to run updatePhysics again.
C2_NoStepAfterRoundEnd == gameOverCalls >= 1 => pc # "loop"

\* C3: after a shield was consumed by a fall-through, no step invokes the
\* round-end callback while the player has not risen back above the floor,
\* whatever expiry callbacks run in between.
C3_ShieldedFallSurvives ==
    [][shieldFall /\ resetTrigger' = resetTrigger => gameOverCalls' = gameOverCalls]_vars

Remaining(active, endTime) == IF active /\ endTime > now THEN endTime - now ELSE 0

\* C5: a step that activates a timed kind sets its flag and sets its expiry to
\* now + duration (10000, 5000, 3000 ms), plus the time the kind had left when
\* it was already active; the callback is scheduled for that expiry.
C5_AdditiveRefresh ==
    [][ /\ collected'[SCORE_MULTIPLIER] = collected[SCORE_MULTIPLIER] + 1
           => /\ player'.scoreMultiplierActive
              /\ player'.scoreMultiplierEndTime
                   = now + Ms(10000) + Remaining(player.scoreMultiplierActive,
                                                 player.scoreMultiplierEndTime)
              /\ \E t \in timeouts' : /\ t.kind = SCORE_MULTIPLIER
                                      /\ t.fireAt = player'.scoreMultiplierEndTime
        /\ collected'[GIANT] = collected[GIANT] + 1
           => /\ player'.isGiant
              /\ player'.giantEndTime
                   = now + Ms(5000) + Remaining(player.isGiant, player.giantEndTime)
              /\ \E t \in timeouts' : t.kind = GIANT /\ t.fireAt = player'.giantEndTime
        /\ collected'[BOOSTER] = collected[BOOSTER] + 1
           => /\ player'.isBoosting
              /\ player'.boosterEndTime
                   = now + Ms(3000) + Remaining(player.isBoosting, player.boosterEndTime)
              /\ \E t \in timeouts' : t.kind = BOOSTER /\ t.fireAt = player'.boosterEndTime
      ]_vars

C5_MultiplierRefreshed ==
    /\ collected[SCORE_MULTIPLIER] = 2
    /\ player.scoreMultiplierEndTime - now > Ms(10000)

\* C6: a timed kind stays active until its stored expiry: no callback of an
\* earlier activation clears the flag before then.
C6_ActiveUntilExpiry ==
    /\ player.scoreMultiplierEndTime > now => player.scoreMultiplierActive
    /\ player.giantEndTime > now => player.isGiant
    /\ player.boosterEndTime > now => player.isBoosting

\* Booster was re-activated, the expiry its first activation scheduled has
\* passed, and the flag is still set
C6_OldExpiryPassed ==
    /\ collected[BOOSTER] >= 2
    /\ player.isBoosting
    /\ now >= player.boosterEndTime - Ms(3000)
    /\ now < player.boosterEndTime

\* C7: no callback scheduled in an earlier round is pending in the current
\* one, and while nothing has been collected in the round the flags are false
\* and the box is PLAYER_SIZE.
C7_NoStaleCallback ==
    /\ \A t \in timeouts : t.round = resetTrigger
    /\ collected = NoneCollected
       => /\ ~player.scoreMultiplierActive /\ ~player.isGiant /\ ~player.isBoosting
          /\ player.width = PLAYER_SIZE /\ player.height = PLAYER_SIZE

C7_ResetCancelledPending == resetTrigger = 2 /\ cancelled > 0

\* C9: the box is PLAYER_SIZE square when isGiant is false and twice that
\* when it is true.
C9_SizeFollowsGiant ==
    /\ player.width = (IF player.isGiant THEN 2 * PLAYER_SIZE ELSE PLAYER_SIZE)
    /\ player.height = player.width

C9_GiantTwiceThenExpired == collected[GIANT] >= 2 /\ ~player.isGiant


\* C8: every activation of a timed kind is eventually followed by its flag
\* being false, with no frame needed after the activation: time passing and
\* the scheduled callback running suffice.
C8_FlagsEventuallyCleared ==
    /\ player.scoreMultiplierActive ~> ~player.scoreMultiplierActive
    /\ player.isGiant ~> ~player.isGiant
    /\ player.isBoosting ~> ~player.isBoosting

C8_BoosterExpired ==
    /\ collected[BOOSTER] >= 1
    /\ ~player.isBoosting
    /\ now >= player.boosterEndTime

\* C10: a Giant activation from the normal size followed by its expiry, with
\* no physics step in between, returns the box to PLAYER_SIZE and its centre
\* to where it was before the activation.
C10_RoundTrip ==
    trip.state = "back"
    => /\ player.width = PLAYER_SIZE
       /\ player.height = PLAYER_SIZE
       /\ CenterX(player) = trip.cx
       /\ CenterY(player) = trip.cy

C10_GrownAndExpired == trip.state = "back" /\ ~player.isGiant /\ collected[GIANT] = 1

\* C11: the Giant growth leaves the centre of the box where it was: in the
\* state right after a step that grew the box, the centre is the centre the
\* box had just before the size change.
C11_CentreAnchored ==
    trip.state = "out" => /\ CenterX(player) = trip.cx
                          /\ CenterY(player) = trip.cy

\* C12: every physics step ends with the box inside the canvas,
\* 0 <= x <= CANVAS_WIDTH - width, also when the step picked up a Giant token
\* after the clamp; and a step whose clamp triggered ends with vx = 0.
C12_BoundaryClamp ==
    [][pc = "loop" => /\ 0 <= player'.x
                      /\ player'.x <= CANVAS_WIDTH - player'.width
                      /\ WallHit(player) => player'.vx = 0]_vars

\* C13: a second run from the same reset, given the same time deltas and the
\* same key events, has after every physics step the same player and the
\* same platforms as this run.
C13_Deterministic == twin = Twin(player, platforms)

\* the SCORE_TIERS entry with the largest min that is <= s, the lowest entry
\* when there is none
HighestTierAtMost(s) ==
    LET ok == {i \in 1..Len(SCORE_TIERS) : SCORE_TIERS[i].min <= s}
    IN IF ok = {} THEN SCORE_TIERS[1]
       ELSE SCORE_TIERS[CHOOSE i \in ok : \A j \in ok : SCORE_TIERS[j].min <= SCORE_TIERS[i].min]

\* C14: getCurrentTier returns, for every score >= 0, the entry with the
\* largest min that is <= score; for score 2600 that is the 2500 tier, whose
\* multiplier is 2.
C14_TierLookup ==
    /\ lookup.tier = HighestTierAtMost(lookup.of)
    /\ lookup.of = 2600 => lookup.tier.min = 2500 /\ lookup.tier.multiplier10 = 20

C14_Looked2600 == lookup.of = 2600 /\ score = 2600 /\ lookup.tier.multiplier10 = 20

\* C15: resetGame sets the ready deadline 1500 ms ahead, and until that
\* deadline no tick runs a physics step: within a round, every step of the
\* system taken before the deadline leaves player, platforms, score and the
\* accumulator unchanged and does not enter animate's loop.
C15_ReadyPhaseIdle ==
    [][ /\ resetTrigger' # resetTrigger => readyEndTime' = now + Ms(1500)
        /\ (readyEndTime > now /\ resetTrigger' = resetTrigger)
           => /\ UNCHANGED << player, platforms, score, accumulator >>
              /\ pc' = "idle" ]_vars

\* a tick has run in the ready phase of a round, after the reset
C15_TickedWhileReady ==
    /\ gameState = "PLAYING"
    /\ readyEndTime > now
    /\ lastTime = now
    /\ now > readyEndTime - READY_TIME

\* C16: in every reachable state every platform lies inside the canvas,
\* 0 <= x <= CANVAS_WIDTH - width: the initial ones, a generated one from
\* the moment it is appended, and a moving one after every update.
C16_PlatformsInBounds ==
    \A i \in 1..Len(platforms) :
        /\ 0 <= platforms[i].x
        /\ platforms[i].x <= CANVAS_WIDTH - platforms[i].width

\* C17: a throw of the score or of the round-end callback does not abort the
\* loop nor leave the step half done: after it animate has not been left
\* without requesting the next frame, and the platforms have been filtered
\* (none is at or below the floor).
C17_ThrowTolerated ==
    throws > 0 => /\ pc # "halted"
                  /\ \A i \in 1..Len(platforms) : platforms[i].y < CANVAS_HEIGHT

\* C18: the value last passed to the score-update callback is the current
\* score: a step that changes the score, and the reset to 0, report the new
\* total in the same operation.
C18_SinkFollowsScore == lastScoreSent = score

\* a scroll has raised a non-zero score
C18_GainReported == lookup.of > 0 /\ score > lookup.of /\ lastScoreSent = score

\* the indices of the tokens a step picked up
TakenIndices(log) == {log.taken[n].index : n \in 1..Len(log.taken)}

\* C19: a token is consumed exactly once.  In every physics step each token
\* picked up was on its platform before the step, is picked up once,
\* activates its kind once (the activations of the step are exactly its
\* pick-ups) and is gone from its platform after the step; every other
\* platform that stays keeps what it had, so none regains a token.
C19_TokenConsumedOnce ==
    [][pc = "loop" =>
        LET log == lastStep'
            d == log.dropped
        IN /\ \A n \in 1..Len(log.taken) :
                /\ platforms[log.taken[n].index].powerUp = log.taken[n].kind
                /\ \A m \in 1..Len(log.taken) :
                      log.taken[m].index = log.taken[n].index => m = n
           /\ \A k \in PowerUpType :
                collected'[k] - collected[k]
                  = Cardinality({n \in 1..Len(log.taken) : log.taken[n].kind = k})
           /\ \A i \in (d + 1)..Len(platforms) :
                platforms'[i - d].powerUp
                  = IF i \in TakenIndices(log) THEN NoPowerUp ELSE platforms[i].powerUp
      ]_vars

\* a token was picked up by the latest step and its platform is now empty
C19_TokenTaken ==
    /\ Len(lastStep.taken) = 1
    /\ lastStep.taken[1].index - lastStep.dropped \in 1..Len(platforms)
    /\ platforms[lastStep.taken[1].index - lastStep.dropped].powerUp = NoPowerUp
    /\ collected[lastStep.taken[1].kind] >= 1

\* the platform the loop visits first among those in a set
FirstOf(S) == CHOOSE i \in S : \A j \in S : i <= j

ScaledAndShrunk(currentScore, r) ==
    LET randomised == MulFrac(PLATFORM_WIDTH, 8000 + 40 * r.difficulty, 10000)
    IN IF currentScore > 500
       THEN Max(randomised - MulFrac(randomised, Min(currentScore - 500, 2500), 5000), Px(45))
       ELSE randomised

\* C21: a platform generated at a score above 500 gets both the random scale
\* and the score shrink: a step that appends a static platform stores it with
\* width max(PLATFORM_WIDTH x r x (1 - min((score - 500)/5000, 0.5)), 45) for
\* the factor r it drew (a moving platform's width is resized afterwards).
C21_ShrinkOfRandomisedBase ==
    [][(pc = "loop" /\ lastStep'.generated /\ ~platforms'[Len(platforms')].isMoving)
       => platforms'[Len(platforms')].width = ScaledAndShrunk(score, lastStep'.draw)]_vars

\* C22: every moving platform is stored with a centre and a range that keep
\* its whole oscillation inside the canvas for the width it has:
\* initialX - moveRange >= 0 and initialX + moveRange + width <= CANVAS_WIDTH.
C22_OscillationOnScreen ==
    \A i \in 1..Len(platforms) :
        platforms[i].isMoving
        => /\ platforms[i].initialX - platforms[i].moveRange >= 0
           /\ platforms[i].initialX + platforms[i].moveRange + platforms[i].width
                <= CANVAS_WIDTH

\* floor(diff x m x t): m is 2 with the ScoreMultiplier active and 1
\* otherwise, t the multiplier of the tier of the score before the gain
ClaimedGain(diff, active, before) ==
    (diff * (IF active THEN 2 ELSE 1) * HighestTierAtMost(before).multiplier10) \div 1000

\* C23: within a round the score changes only in a physics step that ends
\* above the midline, by floor(diff x m x t) with diff the distance above the
\* midline, m = 2 if the ScoreMultiplier is active else 1, and t the multiplier
\* of the tier of the score before the gain; so the score is an integer that
\* never decreases between resets.
C23_ScoreGain ==
    [][resetTrigger' = resetTrigger
       => /\ score' \in Nat
          /\ score' >= score
          /\ pc # "loop" => score' = score
          /\ pc = "loop"
             => score' = score + ClaimedGain(lastStep'.diff, player'.scoreMultiplierActive,
                                             score)]_vars

\* a step scrolled with the ScoreMultiplier active and raised the score by
\* twice the tier's gain
C23_DoubledGain ==
    /\ lastStep.diff > 0
    /\ player.scoreMultiplierActive
    /\ score = lookup.of + ClaimedGain(lastStep.diff, TRUE, lookup.of)
    /\ score > lookup.of + ClaimedGain(lastStep.diff, FALSE, lookup.of)

\* C24: no tick runs more than 240 physics steps (the iteration about to run
\* is at most the 240th), a tick adds at most MAX_DELTA_TIME to the
\* accumulator whatever time has passed, and when the tick is over the
\* accumulator is in [0, FIXED_TIMESTEP): the time not consumed is dropped.
C24_BoundedCatchUp ==
    [][ /\ pc' = "loop" => steps' < MAX_STEPS
        /\ pc' = "idle" => (0 <= accumulator' /\ accumulator' < FIXED_TIMESTEP)
        /\ accumulator' > accumulator => accumulator' <= accumulator + MAX_DELTA_TIME
      ]_vars

\* a frame came MAX_DELTA_TIME + FIXED_TIMESTEP after the ready phase; its
\* tick is over, having run 15 steps (250 ms) and kept nothing of the rest
C24_ExcessDropped ==
    /\ pc = "idle"
    /\ now = READY_TIME + MAX_DELTA_TIME + FIXED_TIMESTEP
    /\ lastTime = now
    /\ accumulator = 0
    /\ player.vy = player.baseJumpStrength + (MAX_DELTA_TIME \div FIXED_TIMESTEP) * player.gravity

\* the pending expiry callbacks of a kind
Pending(tos, kind) == {t \in tos : t.kind = kind}

\* C25: collecting Giant while already Giant changes, of the player, only
\* giantEndTime (x, y, width and height stay as they were), and leaves one
\* expiry callback pending; the expiry, when it runs, shrinks the box once,
\* to PLAYER_SIZE, moving it down and right by half the difference, and no
\* Giant callback is left.
C25_ReExtensionKeepsBox ==
    [][ /\ pc = "loop"
           => \A n \in 1..Len(lastStep'.taken) :
                LET t == lastStep'.taken[n] IN
                (t.kind = GIANT /\ t.was.isGiant)
                => /\ t.became = [t.was EXCEPT !.giantEndTime = t.became.giantEndTime]
                   /\ t.became.giantEndTime > t.was.giantEndTime
                   /\ Cardinality(Pending(timeouts', GIANT)) = 1
        /\ (player.isGiant /\ ~player'.isGiant /\ resetTrigger' = resetTrigger)
           => /\ player'.width = PLAYER_SIZE /\ player'.height = PLAYER_SIZE
              /\ player'.y = player.y + PLAYER_SIZE
              /\ player'.x = player.x + PLAYER_SIZE \div 2
              /\ Pending(timeouts', GIANT) = {}
      ]_vars

\* the latest step collected Giant while already Giant, and the expiry has
\* since run
C25_ReExtendedThenShrunk ==
    /\ \E n \in 1..Len(lastStep.taken) :
          lastStep.taken[n].kind = GIANT /\ lastStep.taken[n].was.isGiant
    /\ ~player.isGiant
    /\ player.width = PLAYER_SIZE
    /\ Pending(timeouts, GIANT) = {}

\* C26: a platform bounces the player only in a step in which it is not
\* boosting and vy is positive after gravity was added; the bounce leaves
\* vy = baseJumpStrength, y = platform.y - height (the midline if that is
\* above it) and half of vx (on the platform at y = 585 with
\* baseJumpStrength -15: vy = -15 and y = 545); a step with no bounce, no
\* boost and no shield bounce adds exactly the gravity to vy.
C26_LandingAndGravity ==
    [][pc = "loop" =>
        LET log == lastStep'
            plat == platforms[log.landings[1]]
        IN /\ log.landings # << >>
              => /\ ~player.isBoosting
                 /\ player.vy + player.gravity > 0
                 /\ log.taken = << >>
                    => /\ player'.vy = player.baseJumpStrength
                       /\ player'.y = Max(plat.y - player.height, CANVAS_HEIGHT \div 2)
                       /\ player'.vx = MulFrac(MoveHorizontal(player).vx, 5, 10)
                       /\ (plat.y = Px(585) /\ player.baseJumpStrength = -Px(15)
                           /\ player.height = Px(40))
                          => player'.vy = -Px(15) /\ player'.y = Px(545)
           /\ (log.landings = << >> /\ ~player.isBoosting /\ ~log.shieldUsed)
              => player'.vy = player.vy + player.gravity
      ]_vars

\* the scenario: at score 0 the player was bounced by the platform at y = 585
\* and has since made a step in which vy rose by the gravity 0.5
C26_BouncedAt585 ==
    /\ score = 0
    /\ platforms[1].y = Px(585)
    /\ player.baseJumpStrength = -Px(15)
    /\ lastStep.landings = << >>
    /\ player.vy = -Px(15) + 50
    /\ player.y = Px(545) + player.vy

\* the square of the distance from the centre of the box to a platform's token
TokenDist2(p, plat) ==
    LET dx == CenterX(p) - (plat.x + plat.width \div 2)
        dy == CenterY(p) - (plat.y - POWERUP_SIZE)
    IN dx * dx + dy * dy

\* C27: a physics step that begins with isBoosting true sets vy to -12 and
\* moves y by it (no gravity is added), bounces on no platform, and still
\* evaluates the pick-ups, with radius 1.5 x width: the first token taken is
\* taken by the box as the -12 left it, and up to that one a token is taken
\* exactly if it is nearer than 1.5 x width.
C27_BoostOverridesGravity ==
    [][(pc = "loop" /\ player.isBoosting) =>
        LET log == lastStep'
            box == [MoveHorizontal(player) EXCEPT !.vy = BOOST_VY,
                                                   !.y = player.y + BOOST_VY]
            first == IF log.taken = << >> THEN Len(platforms) ELSE log.taken[1].index
        IN /\ log.landings = << >>
           /\ ~log.shieldUsed => player'.vy = -Px(12)
           /\ log.taken = << >> => player'.y = Max(player.y - Px(12), CANVAS_HEIGHT \div 2)
           /\ log.taken # << >> => log.taken[1].was = box
           /\ \A i \in 1..first :
                platforms[i].powerUp # NoPowerUp
                => (i \in TakenIndices(log)
                    <=> 4 * TokenDist2(box, MovePlatform(platforms[i]))
                          < 9 * box.width * box.width)
      ]_vars

\* the latest step took a token while boosting, from farther away than the
\* width of the box
C27_TakenFromAfar ==
    /\ Len(lastStep.taken) = 1
    /\ lastStep.taken[1].was.isBoosting
    /\ lastStep.taken[1].was.vy = BOOST_VY
    /\ lastStep.taken[1].index - lastStep.dropped \in 1..Len(platforms)
    /\ LET t == lastStep.taken[1]
           plat == platforms[t.index - lastStep.dropped]
       IN TokenDist2(t.was, [plat EXCEPT !.y = @ - lastStep.diff])
            >= t.was.width * t.was.width

\* C28: every physics step ends with player.y >= CANVAS_HEIGHT / 2.  A step
\* whose integration, or whose Giant pick-up, left y above the midline by
\* diff ends with y on the midline and with every platform that stays moved
\* down by diff, so the offset between the player and each of them is what it
\* was before the scroll; a step that stays below moves no platform.
C28_ScrollKeepsOffsets ==
    [][pc = "loop" =>
        LET log == lastStep'
            d == log.dropped
            risen == IF log.taken # << >> THEN log.taken[Len(log.taken)].became.y
                     ELSE player.y + (IF player.isBoosting THEN BOOST_VY
                                      ELSE player.vy + player.gravity)
        IN /\ player'.y >= CANVAS_HEIGHT \div 2
           /\ log.landings = << >> => log.diff = Max(CANVAS_HEIGHT \div 2 - risen, 0)
           /\ log.diff > 0 => player'.y = CANVAS_HEIGHT \div 2
           /\ \A i \in (d + 1)..Len(platforms) :
                platforms'[i - d].y - player'.y
                  = platforms[i].y - (player'.y - log.diff)
      ]_vars

\* the latest step's integration left the player below the midline, its Giant
\* pick-up lifted the box above it, and the step scrolled
C28_GiantLiftScrolled ==
    /\ Len(lastStep.taken) = 1
    /\ lastStep.taken[1].kind = GIANT
    /\ lastStep.taken[1].was.y >= CANVAS_HEIGHT \div 2
    /\ lastStep.taken[1].became.y < CANVAS_HEIGHT \div 2
    /\ lastStep.diff = CANVAS_HEIGHT \div 2 - lastStep.taken[1].became.y
    /\ player.y = CANVAS_HEIGHT \div 2

\* a platform list is ordered by strictly decreasing y
Descending(plats) == \A i \in 1..(Len(plats) - 1) : plats[i].y > plats[i + 1].y

\* C29: throughout a round the platform list is non-empty and ordered by
\* strictly decreasing y, so its last element is the highest platform; and a
\* physics step appends at most one platform: the list after the step is the
\* platforms that stay, followed by none or one new platform.
C29_OrderedNonEmpty ==
    /\ [](Len(platforms) > 0 /\ Descending(platforms))
    /\ [][pc = "loop" =>
            /\ Len(platforms') - (Len(platforms) - lastStep'.dropped)
                 = (IF lastStep'.generated THEN 1 ELSE 0)
            /\ \A i \in 1..(Len(platforms') - 1) :
                 platforms'[Len(platforms')].y < platforms'[i].y
       ]_vars

\* the lowest platform of the column was dropped by a scroll, and the latest
\* step appended a new one, which is the highest
C29_AppendedAfterDrop ==
    /\ lastStep.generated
    /\ Len(platforms) = Len(Column(NoKit))
    /\ platforms[1].x = Column(NoKit)[2].x
    /\ platforms[1].y < CANVAS_HEIGHT
    /\ \A i \in 1..(Len(platforms) - 1) : platforms[Len(platforms)].y < platforms[i].y

\* the flag and the stored end time of a timed kind
Active(p, kind) ==
    IF kind = SCORE_MULTIPLIER THEN p.scoreMultiplierActive
    ELSE IF kind = GIANT THEN p.isGiant
    ELSE p.isBoosting

EndTime(p, kind) ==
    IF kind = SCORE_MULTIPLIER THEN p.scoreMultiplierEndTime
    ELSE IF kind = GIANT THEN p.giantEndTime
    ELSE p.boosterEndTime

\* C30: for each timed kind, in every state of a round: at most one expiry
\* callback of the kind is pending, the kind's flag is true exactly when one
\* is, and the pending callback's fire time is the stored end time.
C30_FlagIffOnePending ==
    \A kind \in PowerUpType \ {SHIELD} :
        /\ Cardinality(Pending(timeouts, kind)) <= 1
        /\ Active(player, kind) <=> Cardinality(Pending(timeouts, kind)) = 1
        /\ \A t \in Pending(timeouts, kind) : t.fireAt = EndTime(player, kind)

\* Giant was collected twice, the second time while active, and one callback
\* is pending, for the extended end time
C30_ReplacedCallbackPending ==
    /\ collected[GIANT] >= 2
    /\ player.isGiant
    /\ player.giantEndTime > now + GIANT_DURATION
    /\ \E t \in timeouts : /\ Pending(timeouts, GIANT) = {t}
                           /\ t.fireAt = player.giantEndTime
                           /\ t.id = giantTimerRef

====
